---- MODULE Spec2Model ----
(***************************************************************************)
(* A model of scripts/det_train.py: the procedure main, which resolves a   *)
(* hierarchical configuration into keyword arguments and hands them to the *)
(* dataset, module, logger, callback and trainer constructors, and then    *)
(* calls trainer.fit.                                                      *)
(*                                                                         *)
(* Python values are tagged records [t |-> type, v |-> value]; a dict is a *)
(* function from its keys, so that  'k' in d.keys()  is  k \in DOMAIN d.   *)
(* A string that is a path is the sequence of its '/'-separated parts.     *)
(***************************************************************************)
EXTENDS Integers, Sequences, FiniteSets, TLC

VARIABLES pc, cfg, exp_path, run_name, seed, dataset_kwargs, module,
          trainer_kwargs, loggers, callbacks, trainer, steps, calls, error

vars == <<pc, cfg, exp_path, run_name, seed, dataset_kwargs, module,
          trainer_kwargs, loggers, callbacks, trainer, steps, calls, error>>

-----------------------------------------------------------------------------
(* Bounds of the model.                                                    *)

\* supplied batch sizes are 1..MaxBatch
MaxBatch == 3
\* exp.devices lists 0..MaxDevices devices
MaxDevices == 3
\* an integer exp.fast_dev_run is one of 0..MaxFastDevRun
MaxFastDevRun == 2
\* len(dataset.train_dataloader()) is one of 0..MaxLoaderLen
MaxLoaderLen == 1

-----------------------------------------------------------------------------
(* Python values.                                                          *)

IntV(n) == [t |-> "int", v |-> n]
StrV(s) == [t |-> "str", v |-> s]
BoolV(b) == [t |-> "bool", v |-> b]
FloatV(s) == [t |-> "float", v |-> s]
ListV(s) == [t |-> "list", v |-> s]
DictV(d) == [t |-> "dict", v |-> d]
PathV(p) == [t |-> "path", v |-> p]
NoneV == [t |-> "none"]
\* an object built by calling the constructor cls with keyword arguments kw
ObjV(cls, kw) == [t |-> "obj", cls |-> cls, kwargs |-> kw]

\* the empty dict
Empty == [k \in {} |-> NoneV]

\* Truthy with every integer taken as false: the test  x is True
TruthyIntOnlyNonBool(x) ==
    CASE x.t = "bool" -> x.v
      [] x.t = "int" -> FALSE
      [] x.t = "none" -> FALSE
      [] x.t = "str" -> x.v # ""
      [] x.t = "list" -> Len(x.v) > 0
      [] OTHER -> TRUE

\* Python's truth value of x, as  if x:  and  not x  take it
Truthy(x) ==
    CASE x.t = "bool" -> x.v
      [] x.t = "int" -> x.v # 0
      [] x.t = "none" -> FALSE
      [] x.t = "str" -> x.v # ""
      [] x.t = "list" -> Len(x.v) > 0
      [] OTHER -> TRUE

\* d[k] if 'k' in d.keys() else dflt
Get(d, k, dflt) == IF k \in DOMAIN d THEN d[k] ELSE dflt

\* d.update(u)
Update(d, u) == u @@ d

\* f"{p}/{part}"
Join(p, part) == Append(p, part)

-----------------------------------------------------------------------------
(* The configurations main is run on.                                      *)

RECURSIVE DictsOver(_, _)
\* every dict that gives some of the keys a value of that key's choices
DictsOver(keys, choices) ==
    IF keys = {} THEN {Empty}
    ELSE LET k == CHOOSE x \in keys : TRUE
             rest == DictsOver(keys \ {k}, choices)
         IN  rest \cup {(k :> val) @@ d : d \in rest, val \in choices[k]}

Dicts(choices) == DictsOver(DOMAIN choices, choices)

ProjectCfg ==
    [name |-> "pl_jdt", root_dir |-> "work", output_dir |-> "output",
     data_dir |-> "data"]

BatchSizes == {IntV(n) : n \in 1..MaxBatch}

DeviceLists == {ListV([i \in 1..n |-> i - 1]) : n \in 0..MaxDevices}

FastDevRuns ==
    {BoolV(TRUE), BoolV(FALSE)} \cup {IntV(n) : n \in 0..MaxFastDevRun}

\* a configuration main runs through: exp.train.batch_size is set
BaseExp ==
    [name |-> StrV("test"), train |-> [batch_size |-> IntV(1)], val |-> Empty]

\* exp.train, exp.val, exp.num_workers and exp.split vary
DatasetExps ==
    {d @@ [name |-> StrV("test")] :
        d \in Dicts([train |-> Dicts([batch_size |-> BatchSizes]),
                     val |-> Dicts([batch_size |-> BatchSizes,
                                    val_batch_size |-> BatchSizes]),
                     num_workers |-> {IntV(8)},
                     split |-> Dicts([train |-> {ListV(<<"MOT17-02">>)},
                                      val |-> {ListV(<<"MOT17-04">>)},
                                      test |-> {ListV(<<"MOT17-05">>)}])])}

\* exp.name, exp.seed, exp.checkpoint_path and the module's keys of exp.train vary
ModuleExps ==
    {d @@ [val |-> Empty] :
        d \in Dicts([name |-> {StrV("test")},
                     seed |-> {IntV(7)},
                     checkpoint_path |->
                        {StrV("last.ckpt"), StrV(""), NoneV, BoolV(FALSE)},
                     train |->
                        {t @@ [batch_size |-> IntV(1)] :
                            t \in Dicts([optimizer |->
                                            {DictV([name |-> StrV("adam")])},
                                         lr_scheduler |->
                                            {DictV([name |-> StrV("cosine")])},
                                         warmup |-> {BoolV(TRUE), BoolV(FALSE)}])}])}

\* the trainer's keys vary
TrainerExps ==
    {d @@ BaseExp :
        d \in Dicts([max_epochs |-> {IntV(30)},
                     check_val_every_n_epoch |-> {IntV(1)},
                     log_every_n_steps |-> {IntV(50)},
                     fast_dev_run |-> FastDevRuns,
                     num_sanity_val_steps |-> {IntV(2)},
                     profiler |-> {StrV("simple")},
                     overfit_batches |-> {IntV(10)}])}

\* the devices and the distributed set-up vary
DevicesExps ==
    {d @@ BaseExp :
        d \in Dicts([devices |-> DeviceLists \cup {IntV(2)},
                     accelerator |-> {StrV("cpu")},
                     strategy |-> {StrV("ddp_spawn")},
                     amp_backend |-> {StrV("apex")},
                     sync_batchnorm |-> {BoolV(TRUE)}])}

\* the loggers vary
LoggersExps ==
    {d @@ BaseExp :
        d \in Dicts([fast_dev_run |-> FastDevRuns,
                     csv |-> {BoolV(TRUE), BoolV(FALSE)},
                     tb |-> {BoolV(TRUE), BoolV(FALSE)},
                     wandb |-> {BoolV(TRUE), BoolV(FALSE)}])}

\* the callbacks vary
CallbacksExps ==
    {d @@ BaseExp :
        d \in Dicts([fast_dev_run |-> FastDevRuns,
                     csv |-> {BoolV(TRUE)},
                     refresh_rate |-> {IntV(5)},
                     checkpoints |->
                        Dicts([dirpath |-> {PathV(<<"mnt", "ckpts">>)},
                               monitor |-> {StrV("val/mAP")}]),
                     device_stats_monitor |-> {BoolV(TRUE), BoolV(FALSE)},
                     early_stopping |->
                        Dicts([monitor |-> {StrV("val/mAP")},
                               patience |-> {IntV(5)}]),
                     model_summary |-> Dicts([max_depth |-> {IntV(2)}])])}

Exps ==
    DatasetExps \cup ModuleExps \cup TrainerExps \cup DevicesExps
        \cup LoggersExps \cup CallbacksExps

Configs == {[project |-> ProjectCfg, exp |-> e] : e \in Exps}

NoCfg == [project |-> Empty, exp |-> Empty]

-----------------------------------------------------------------------------
(* The straight-line control flow of main.                                 *)

\* NextStep with pl.Trainer called right after its keyword arguments are
\* resolved, before the loggers and the callbacks are selected
NextStepTrainerFirst(s) ==
    CASE s = "parse" -> "exp"
      [] s = "exp" -> "seed"
      [] s = "seed" -> "dataset"
      [] s = "dataset" -> "prepare_data"
      [] s = "prepare_data" -> "setup"
      [] s = "setup" -> "module"
      [] s = "module" -> "trainer_kwargs"
      [] s = "trainer_kwargs" -> "trainer"
      [] s = "trainer" -> "loggers"
      [] s = "loggers" -> "callbacks"
      [] s = "callbacks" -> "fit"
      [] s = "fit" -> "done"

\* the step main goes on to after step s has returned
NextStep(s) ==
    CASE s = "parse" -> "exp"
      [] s = "exp" -> "seed"
      [] s = "seed" -> "dataset"
      [] s = "dataset" -> "prepare_data"
      [] s = "prepare_data" -> "setup"
      [] s = "setup" -> "module"
      [] s = "module" -> "trainer_kwargs"
      [] s = "trainer_kwargs" -> "loggers"
      [] s = "loggers" -> "callbacks"
      [] s = "callbacks" -> "trainer"
      [] s = "trainer" -> "fit"
      [] s = "fit" -> "done"

\* Raise with the exception caught and ignored: main goes on
RaiseSwallowed(s) == NextStep(s)

\* where main is after a call made in step s has raised: main has no
\* try/except, the exception leaves main
Raise(s) == "failed"

-----------------------------------------------------------------------------
(* What main derives from the configuration.                               *)

project_name == StrV(cfg.project.name)

output_path == <<cfg.project.root_dir, cfg.project.output_dir>>

data_path == <<cfg.project.data_dir>>

\* utils.exp(output_path, exp_name): the experiment directory
\* {save_dir}/{today}/{curr_time}-{exp_name}-{random_str} and the run's name
exp(save_dir, exp_name) ==
    {[exp_path |-> save_dir \o <<today, run>>, run_name |-> run] :
        today \in {"2020-04-24"},
        run \in {"12-14-test-L1GV1", "12-14-test-Q7XK2"}}

\* whether resolving dataset_kwargs raises: a missing key of the configuration
\* is read
DatasetKwargsRaises(e) ==
    \/ "train" \notin DOMAIN e
    \/ "val" \notin DOMAIN e
    \/ /\ "val_batch_size" \in DOMAIN e.val
       /\ "batch_size" \notin DOMAIN e.val
    \/ /\ "val_batch_size" \notin DOMAIN e.val
       /\ "batch_size" \notin DOMAIN e.train

DatasetKwargs(e) ==
    [batch_size |-> Get(e.train, "batch_size", IntV(2)),
     val_batch_size |->
        IF "val_batch_size" \in DOMAIN e.val
            THEN e.val.batch_size
            ELSE e.train.batch_size,
     num_workers |-> Get(e, "num_workers", IntV(4)),
     train_split |->
        IF "split" \in DOMAIN e /\ "train" \in DOMAIN e.split
            THEN e.split.train ELSE NoneV,
     val_split |->
        IF "split" \in DOMAIN e /\ "val" \in DOMAIN e.split
            THEN e.split.val ELSE NoneV,
     test_split |->
        IF "split" \in DOMAIN e /\ "test" \in DOMAIN e.split
            THEN e.split.test ELSE NoneV]

\* the keyword arguments of a fresh LitModule: n is
\* len(dataset.train_dataloader())
FreshKwargs(e, n) ==
    [len_train_data_loader |-> IntV(n),
     optimizer |->
        IF "train" \in DOMAIN e /\ "optimizer" \in DOMAIN e.train
            THEN e.train.optimizer
            ELSE DictV([name |-> StrV("sgd"),
                        params |-> DictV([lr |-> FloatV("0.00001"),
                                          weight_decay |-> FloatV("0.0005"),
                                          momentum |-> FloatV("0.9")])]),
     lr_scheduler |->
        IF "train" \in DOMAIN e /\ "lr_scheduler" \in DOMAIN e.train
            THEN e.train.lr_scheduler
            ELSE DictV([name |-> StrV("step"),
                        params |-> DictV([step_size |-> IntV(10),
                                          gamma |-> FloatV("0.1")])]),
     warmup |->
        IF "train" \in DOMAIN e /\ "warmup" \in DOMAIN e.train
            THEN e.train.warmup ELSE BoolV(FALSE)]

\* ModuleCall resuming whenever exp.checkpoint_path is present, truthy or not
ModuleCallResumeIfPresent(e, n) ==
    IF "checkpoint_path" \in DOMAIN e
        THEN [fn |-> "LitModule.load_from_checkpoint",
              kwargs |-> [len_train_data_loader |-> IntV(n),
                          checkpoint_path |-> e.checkpoint_path]]
        ELSE [fn |-> "LitModule", kwargs |-> FreshKwargs(e, n)]

\* the call that constructs the module, fresh or from a checkpoint
ModuleCall(e, n) ==
    LET checkpoint_path == Get(e, "checkpoint_path", BoolV(FALSE))
    IN  IF Truthy(checkpoint_path)
            THEN [fn |-> "LitModule.load_from_checkpoint",
                  kwargs |-> Update([len_train_data_loader |-> IntV(n)],
                                    [checkpoint_path |-> checkpoint_path])]
            ELSE [fn |-> "LitModule",
                  kwargs |-> Update([len_train_data_loader |-> IntV(n)],
                                    [optimizer |-> FreshKwargs(e, n).optimizer,
                                     lr_scheduler |-> FreshKwargs(e, n).lr_scheduler,
                                     warmup |-> FreshKwargs(e, n).warmup])]

NoModule == [fn |-> "none", kwargs |-> Empty]

\* whether resolving trainer_kwargs raises: len() of an exp.devices that is
\* no list
TrainerKwargsRaises(e) == "devices" \in DOMAIN e /\ e.devices.t # "list"

\* DevicesKwargs with the distributed set-up for one listed device too
DevicesKwargsAnyDevice(e) ==
    IF "devices" \in DOMAIN e /\ Len(e.devices.v) > 0
        THEN [devices |-> IntV(Len(e.devices.v)),
              accelerator |-> Get(e, "accelerator", StrV("gpu")),
              strategy |-> Get(e, "strategy", StrV("ddp")),
              amp_backend |-> Get(e, "amp_backend", StrV("native")),
              sync_batchnorm |-> Get(e, "sync_batchnorm", BoolV(FALSE))]
        ELSE [devices |-> Get(e, "devices", ListV(<<0>>)),
              accelerator |-> Get(e, "accelerator", StrV("gpu"))]

\* the second update of trainer_kwargs: the devices and the distributed set-up
DevicesKwargs(e) ==
    IF "devices" \in DOMAIN e /\ Len(e.devices.v) > 1
        THEN [devices |-> IntV(Len(e.devices.v)),
              accelerator |-> Get(e, "accelerator", StrV("gpu")),
              strategy |-> Get(e, "strategy", StrV("ddp")),
              amp_backend |-> Get(e, "amp_backend", StrV("native")),
              sync_batchnorm |-> Get(e, "sync_batchnorm", BoolV(FALSE))]
        ELSE [devices |-> Get(e, "devices", ListV(<<0>>)),
              accelerator |-> Get(e, "accelerator", StrV("gpu"))]

\* trainer_kwargs before its callbacks and logger entries are set
TrainerKwargs(e) ==
    Update(
        Update([max_epochs |-> Get(e, "max_epochs", IntV(10)),
                check_val_every_n_epoch |->
                    Get(e, "check_val_every_n_epoch", IntV(2)),
                log_every_n_steps |-> Get(e, "log_every_n_steps", IntV(200)),
                fast_dev_run |-> Get(e, "fast_dev_run", BoolV(FALSE)),
                num_sanity_val_steps |-> Get(e, "num_sanity_val_steps", IntV(0)),
                profiler |-> Get(e, "profiler", NoneV),
                overfit_batches |-> Get(e, "overfit_batches", IntV(0))],
               [devices |-> IntV(1), accelerator |-> StrV("gpu")]),
        DevicesKwargs(e))

\* an insertion-ordered dict of objects: the sequence of its items
Item(k, o) == [key |-> k, obj |-> o]

Keys(d) == [i \in 1..Len(d) |-> StrV(d[i].key)]

Values(d) == [i \in 1..Len(d) |-> d[i].obj]

\* <<x>> if b else <<>>
If(b, x) == IF b THEN <<x>> ELSE <<>>

\* the loggers main constructs when fast_dev_run is falsy, in the order it
\* constructs them
LoggersUnguarded(e, out, run, project) ==
    If("csv" \in DOMAIN e /\ Truthy(e.csv),
       Item("csv", ObjV("CSVLogger",
                        [save_dir |-> PathV(Join(out, "csv_logs")),
                         name |-> StrV(run)])))
    \o If("tb" \in DOMAIN e /\ Truthy(e.tb),
          Item("tb", ObjV("TensorBoardLogger",
                          [save_dir |-> PathV(Join(out, "tb_logs")),
                           name |-> StrV(run)])))
    \o If("wandb" \in DOMAIN e /\ Truthy(e.wandb),
          Item("wandb", ObjV("WandbLogger",
                             [project |-> project,
                              name |-> StrV(run),
                              save_dir |-> PathV(out)])))

\* Loggers with every save_dir moved into a directory of the run
LoggersUnderExp(e, fdr, out, run, project) ==
    IF ~Truthy(fdr)
        THEN LoggersUnguarded(e, Join(out, run), run, project)
        ELSE <<>>

\* the loggers dict; fdr is trainer_kwargs['fast_dev_run']
Loggers(e, fdr, out, run, project) ==
    IF ~Truthy(fdr) THEN LoggersUnguarded(e, out, run, project) ELSE <<>>

\* the keyword arguments of ModelCheckpoint
CheckpointsKwargs(e, exp_dir) ==
    IF "checkpoints" \in DOMAIN e
        THEN [dirpath |->
                Get(e.checkpoints, "dirpath", PathV(Join(exp_dir, "ckpts"))),
              monitor |->
                Get(e.checkpoints, "monitor", StrV("train/epoch/loss"))]
        ELSE [dirpath |-> PathV(Join(exp_dir, "ckpts")),
              monitor |-> StrV("val/epoch/loss")]

\* the callbacks dict; fdr is trainer_kwargs['fast_dev_run']
CallbacksDict(e, fdr, exp_dir) ==
    IF ~Truthy(fdr)
        THEN <<Item("progress_bar",
                    ObjV("TQDMProgressBar",
                         [refresh_rate |-> Get(e, "refresh_rate", IntV(1))])),
               Item("checkpoints",
                    ObjV("ModelCheckpoint", CheckpointsKwargs(e, exp_dir)))>>
             \o If("device_stats_monitor" \in DOMAIN e
                        /\ Truthy(e.device_stats_monitor),
                   Item("device_stats_monitor", ObjV("DeviceStatsMonitor", Empty)))
             \o If("early_stopping" \in DOMAIN e,
                   Item("early_stopping",
                        ObjV("EarlyStopping",
                             [monitor |->
                                Get(e.early_stopping, "monitor",
                                    StrV("train/epoch/loss")),
                              patience |->
                                Get(e.early_stopping, "patience",
                                    IntV(3))])))
             \o If("model_summary" \in DOMAIN e,
                   Item("model_summary",
                        ObjV("ModelSummary",
                             [max_depth |->
                                Get(e.model_summary, "max_depth",
                                    IntV(1))])))
        ELSE <<>>

\* trainer_kwargs with its callbacks and logger entries set to the dicts' keys
WithNames(kw, cbs, lgs) ==
    Update(kw, [callbacks |-> ListV(Keys(cbs)), logger |-> ListV(Keys(lgs))])

\* WithCallbacksAndLoggers without the second assignment: the keys are handed
\* to pl.Trainer
WithKeysOnly(kw, cbs, lgs) == WithNames(kw, cbs, lgs)

\* trainer_kwargs as handed to pl.Trainer: its callbacks and logger entries are
\* set to the dicts' keys and then to the dicts' values
WithCallbacksAndLoggers(kw, cbs, lgs) ==
    Update(WithNames(kw, cbs, lgs),
           [callbacks |-> ListV(Values(cbs)), logger |-> ListV(Values(lgs))])

\* the names of the constructors called for the first n items of d
Constructed(d, n) == [i \in 1..n |-> d[i].obj.cls]

-----------------------------------------------------------------------------
(* The run of main.                                                        *)

Init ==
    /\ pc = "parse"
    /\ cfg = NoCfg
    /\ exp_path = <<>>
    /\ run_name = ""
    /\ seed = NoneV
    /\ dataset_kwargs = Empty
    /\ module = NoModule
    /\ trainer_kwargs = Empty
    /\ loggers = <<>>
    /\ callbacks = <<>>
    /\ trainer = NoneV
    /\ steps = <<>>
    /\ calls = <<>>
    /\ error = "none"

\* step s makes the one call named call: it returns and main goes on, or it
\* raises and the exception leaves main
Returns(s, call) ==
    /\ steps' = Append(steps, s)
    /\ calls' = Append(calls, call)
    /\ pc' = NextStep(s)
    /\ error' = error

Raises(s, call) ==
    /\ steps' = Append(steps, s)
    /\ calls' = Append(calls, call)
    /\ pc' = Raise(s)
    /\ error' = call

\* step s reads a key the configuration does not have, before any call
RaisesOnConfig(s) ==
    /\ steps' = Append(steps, s)
    /\ calls' = calls
    /\ pc' = Raise(s)
    /\ error' = "cfg"

\* hydra composes the configuration and calls main, which reads the project's
\* paths and the experiment's name
ParseConfig ==
    /\ pc = "parse"
    /\ \/ /\ \E c \in Configs :
                /\ cfg' = c
                /\ IF "name" \in DOMAIN c.exp
                      THEN Returns("parse", "hydra.main")
                      ELSE /\ RaisesOnConfig("parse")
       \/ /\ Raises("parse", "hydra.main")
          /\ cfg' = cfg
    /\ UNCHANGED <<exp_path, run_name, seed, dataset_kwargs, module,
                   trainer_kwargs, loggers, callbacks, trainer>>

Exp ==
    /\ pc = "exp"
    /\ \/ /\ \E r \in exp(output_path, cfg.exp.name) :
                /\ exp_path' = r.exp_path
                /\ run_name' = r.run_name
          /\ Returns("exp", "utils.exp")
       \/ /\ Raises("exp", "utils.exp")
          /\ UNCHANGED <<exp_path, run_name>>
    /\ UNCHANGED <<cfg, seed, dataset_kwargs, module, trainer_kwargs, loggers,
                   callbacks, trainer>>

Seed ==
    /\ pc = "seed"
    /\ seed' = Get(cfg.exp, "seed", IntV(42))
    /\ \/ Returns("seed", "pl.seed_everything")
       \/ Raises("seed", "pl.seed_everything")
    /\ UNCHANGED <<cfg, exp_path, run_name, dataset_kwargs, module,
                   trainer_kwargs, loggers, callbacks, trainer>>

Dataset ==
    /\ pc = "dataset"
    /\ IF DatasetKwargsRaises(cfg.exp)
          THEN /\ RaisesOnConfig("dataset")
               /\ dataset_kwargs' = dataset_kwargs
          ELSE /\ dataset_kwargs' = DatasetKwargs(cfg.exp)
               /\ \/ Returns("dataset", "LitDataset")
                  \/ Raises("dataset", "LitDataset")
    /\ UNCHANGED <<cfg, exp_path, run_name, seed, module, trainer_kwargs,
                   loggers, callbacks, trainer>>

PrepareData ==
    /\ pc = "prepare_data"
    /\ \/ Returns("prepare_data", "dataset.prepare_data")
       \/ Raises("prepare_data", "dataset.prepare_data")
    /\ UNCHANGED <<cfg, exp_path, run_name, seed, dataset_kwargs, module,
                   trainer_kwargs, loggers, callbacks, trainer>>

Setup ==
    /\ pc = "setup"
    /\ \/ Returns("setup", "dataset.setup")
       \/ Raises("setup", "dataset.setup")
    /\ UNCHANGED <<cfg, exp_path, run_name, seed, dataset_kwargs, module,
                   trainer_kwargs, loggers, callbacks, trainer>>

Module ==
    /\ pc = "module"
    /\ \E n \in 0..MaxLoaderLen :
          LET call == ModuleCall(cfg.exp, n)
          IN  \/ /\ module' = call
                 /\ Returns("module", call.fn)
              \/ /\ module' = module
                 /\ Raises("module", call.fn)
    /\ UNCHANGED <<cfg, exp_path, run_name, seed, dataset_kwargs,
                   trainer_kwargs, loggers, callbacks, trainer>>

ResolveTrainerKwargs ==
    /\ pc = "trainer_kwargs"
    /\ IF TrainerKwargsRaises(cfg.exp)
          THEN /\ RaisesOnConfig("trainer_kwargs")
               /\ trainer_kwargs' = trainer_kwargs
          ELSE /\ trainer_kwargs' = Update(trainer_kwargs, TrainerKwargs(cfg.exp))
               /\ steps' = Append(steps, "trainer_kwargs")
               /\ pc' = NextStep("trainer_kwargs")
               /\ UNCHANGED <<calls, error>>
    /\ UNCHANGED <<cfg, exp_path, run_name, seed, dataset_kwargs, module,
                   loggers, callbacks, trainer>>

\* step s constructs the objects of d one after the other: all of them, or
\* those before the first whose constructor raises
Constructs(s, d, n) ==
    /\ steps' = Append(steps, s)
    /\ IF n = Len(d)
          THEN /\ calls' = calls \o Constructed(d, n)
               /\ pc' = NextStep(s)
               /\ error' = error
          ELSE /\ calls' = calls \o Constructed(d, n + 1)
               /\ pc' = Raise(s)
               /\ error' = d[n + 1].obj.cls

SelectLoggers ==
    /\ pc = "loggers"
    /\ LET d == Loggers(cfg.exp, trainer_kwargs.fast_dev_run, output_path,
                        run_name, project_name)
       IN  \E n \in 0..Len(d) :
              /\ loggers' = SubSeq(d, 1, n)
              /\ Constructs("loggers", d, n)
    /\ UNCHANGED <<cfg, exp_path, run_name, seed, dataset_kwargs, module,
                   trainer_kwargs, callbacks, trainer>>

SelectCallbacks ==
    /\ pc = "callbacks"
    /\ LET d == CallbacksDict(cfg.exp, trainer_kwargs.fast_dev_run, exp_path)
       IN  \E n \in 0..Len(d) :
              /\ callbacks' = SubSeq(d, 1, n)
              /\ Constructs("callbacks", d, n)
    /\ UNCHANGED <<cfg, exp_path, run_name, seed, dataset_kwargs, module,
                   trainer_kwargs, loggers, trainer>>

Trainer ==
    /\ pc = "trainer"
    /\ trainer_kwargs' = WithCallbacksAndLoggers(trainer_kwargs, callbacks, loggers)
    /\ \/ /\ trainer' = ObjV("pl.Trainer", trainer_kwargs')
          /\ Returns("trainer", "pl.Trainer")
       \/ /\ trainer' = trainer
          /\ Raises("trainer", "pl.Trainer")
    /\ UNCHANGED <<cfg, exp_path, run_name, seed, dataset_kwargs, module,
                   loggers, callbacks>>

Fit ==
    /\ pc = "fit"
    /\ \/ Returns("fit", "trainer.fit")
       \/ Raises("fit", "trainer.fit")
    /\ UNCHANGED <<cfg, exp_path, run_name, seed, dataset_kwargs, module,
                   trainer_kwargs, loggers, callbacks, trainer>>

Next ==
    \/ ParseConfig
    \/ Exp
    \/ Seed
    \/ Dataset
    \/ PrepareData
    \/ Setup
    \/ Module
    \/ ResolveTrainerKwargs
    \/ SelectLoggers
    \/ SelectCallbacks
    \/ Trainer
    \/ Fit

Spec == Init /\ [][Next]_vars

-----------------------------------------------------------------------------
(* The properties of main.                                                 *)

\* p is a prefix of q; for paths: q is the directory p or lies under it
IsPrefix(p, q) == Len(p) <= Len(q) /\ SubSeq(q, 1, Len(p)) = p

\* how many entries of sequence q are in the set S
Count(q, S) == Cardinality({i \in DOMAIN q : q[i] \in S})

\* step s was started, and every call it made has returned
Past(s) ==
    \E i \in DOMAIN steps :
        steps[i] = s /\ (i < Len(steps) \/ pc # "failed")

\* the steps of q that are among the steps S, in q's order
RECURSIVE Only(_, _)
Only(q, S) ==
    IF q = <<>> THEN <<>>
    ELSE IF Head(q) \in S THEN <<Head(q)>> \o Only(Tail(q), S)
    ELSE Only(Tail(q), S)

\* the section of the configuration named k, empty when it is absent
Section(e, k) == Get(e, k, Empty)

\* the keyword arguments kw hold, as arg, the value the configuration gives key
\* in the section d, or dflt when the section has no such key
Verbatim(kw, arg, d, key, dflt) ==
    arg \in DOMAIN kw /\ kw[arg] = Get(d, key, dflt)

\* the keyword arguments of the callback or logger stored under key k
KwargsOf(d, k) == {d[i].obj.kwargs : i \in {j \in DOMAIN d : d[j].key = k}}

\* C1: for each optional key of the configuration, the argument handed to the
\* framework constructor is the key's hardcoded default when the key is absent
\* and the supplied value, unchanged, when it is present.
C1_DefaultOrSuppliedVerbatim ==
    LET e == cfg.exp
    IN  /\ Past("dataset") =>
            /\ Verbatim(dataset_kwargs, "batch_size", Section(e, "train"),
                        "batch_size", IntV(2))
            /\ Verbatim(dataset_kwargs, "val_batch_size", Section(e, "val"),
                        "batch_size", dataset_kwargs.batch_size)
            /\ Verbatim(dataset_kwargs, "num_workers", e, "num_workers", IntV(4))
            /\ Verbatim(dataset_kwargs, "train_split", Section(e, "split"),
                        "train", NoneV)
            /\ Verbatim(dataset_kwargs, "val_split", Section(e, "split"),
                        "val", NoneV)
            /\ Verbatim(dataset_kwargs, "test_split", Section(e, "split"),
                        "test", NoneV)
        /\ Past("module") =>
            /\ Verbatim(module.kwargs, "optimizer", Section(e, "train"),
                        "optimizer", FreshKwargs(Empty, 0).optimizer)
            /\ Verbatim(module.kwargs, "lr_scheduler", Section(e, "train"),
                        "lr_scheduler", FreshKwargs(Empty, 0).lr_scheduler)
            /\ Verbatim(module.kwargs, "warmup", Section(e, "train"),
                        "warmup", BoolV(FALSE))
        /\ Past("trainer_kwargs") =>
            /\ Verbatim(trainer_kwargs, "max_epochs", e, "max_epochs", IntV(10))
            /\ Verbatim(trainer_kwargs, "check_val_every_n_epoch", e,
                        "check_val_every_n_epoch", IntV(2))
            /\ Verbatim(trainer_kwargs, "log_every_n_steps", e,
                        "log_every_n_steps", IntV(200))
            /\ Verbatim(trainer_kwargs, "fast_dev_run", e, "fast_dev_run",
                        BoolV(FALSE))
            /\ Verbatim(trainer_kwargs, "num_sanity_val_steps", e,
                        "num_sanity_val_steps", IntV(0))
            /\ Verbatim(trainer_kwargs, "profiler", e, "profiler", NoneV)
            /\ Verbatim(trainer_kwargs, "devices", e, "devices", ListV(<<0>>))
            /\ Verbatim(trainer_kwargs, "accelerator", e, "accelerator",
                        StrV("gpu"))
            /\ Verbatim(trainer_kwargs, "strategy", e, "strategy", StrV("ddp"))
            /\ Verbatim(trainer_kwargs, "amp_backend", e, "amp_backend",
                        StrV("native"))
            /\ Verbatim(trainer_kwargs, "sync_batchnorm", e, "sync_batchnorm",
                        BoolV(FALSE))
        /\ \A kw \in KwargsOf(callbacks, "progress_bar") :
                Verbatim(kw, "refresh_rate", e, "refresh_rate", IntV(1))
        /\ \A kw \in KwargsOf(callbacks, "checkpoints") :
            /\ Verbatim(kw, "dirpath", Section(e, "checkpoints"), "dirpath",
                        PathV(Join(exp_path, "ckpts")))
            /\ \E dflt \in {StrV("train/epoch/loss"), StrV("val/epoch/loss")} :
                    Verbatim(kw, "monitor", Section(e, "checkpoints"),
                             "monitor", dflt)
        /\ \A kw \in KwargsOf(callbacks, "early_stopping") :
            /\ Verbatim(kw, "monitor", Section(e, "early_stopping"), "monitor",
                        StrV("train/epoch/loss"))
            /\ Verbatim(kw, "patience", Section(e, "early_stopping"),
                        "patience", IntV(3))
        /\ \A kw \in KwargsOf(callbacks, "model_summary") :
                Verbatim(kw, "max_depth", Section(e, "model_summary"),
                         "max_depth", IntV(1))

\* the order of the steps as the specification gives it
ClaimedOrder ==
    <<"parse", "exp", "dataset", "prepare_data", "setup", "module", "trainer",
      "loggers", "callbacks", "fit">>

\* the order of the steps in main
MainOrder ==
    <<"parse", "exp", "seed", "dataset", "prepare_data", "setup", "module",
      "trainer_kwargs", "loggers", "callbacks", "trainer", "fit">>

Range(q) == {q[i] : i \in DOMAIN q}

LoggerClasses == {"CSVLogger", "TensorBoardLogger", "WandbLogger"}

CallbackClasses ==
    {"TQDMProgressBar", "ModelCheckpoint", "DeviceStatsMonitor",
     "EarlyStopping", "ModelSummary"}

ModuleCalls == {"LitModule", "LitModule.load_from_checkpoint"}

\* C2, as claimed: the steps run in the order parsing, utils.exp, dataset,
\* prepare_data, setup, module, trainer construction, logger selection,
\* callback selection, trainer.fit, and trainer.fit is called at most once,
\* after all the others.
C2_ClaimedStepOrder ==
    /\ IsPrefix(Only(steps, Range(ClaimedOrder)), ClaimedOrder)
    /\ Count(calls, {"trainer.fit"}) <= 1
    /\ "trainer.fit" \in Range(calls) =>
            Range(ClaimedOrder) \ {"fit"} \subseteq Range(steps)

\* C2, amended: the steps run in the order parsing, utils.exp, dataset,
\* prepare_data, setup, module, logger selection, callback selection, trainer
\* construction, trainer.fit: pl.Trainer is called after every logger and
\* callback was constructed (only its other keyword arguments are resolved
\* before), and trainer.fit is called at most once, after all the others.
C2_StepOrder ==
    /\ IsPrefix(steps, MainOrder)
    /\ \A i, j \in DOMAIN calls :
            calls[i] \in LoggerClasses \cup CallbackClasses
                /\ calls[j] = "pl.Trainer" => i < j
    /\ Count(calls, {"trainer.fit"}) <= 1
    /\ "trainer.fit" \in Range(calls) =>
            /\ steps = MainOrder
            /\ calls[Len(calls)] = "trainer.fit"
            /\ \A s \in Range(MainOrder) \ {"fit"} : Past(s)

\* a whole run that constructed loggers and callbacks before its trainer
C2_Witness ==
    /\ pc = "done"
    /\ Len(loggers) > 0
    /\ Len(callbacks) > 2
    /\ trainer.t = "obj"

\* every directory handed to a logger or to the checkpoint callback
LoggerDirs == {kw.save_dir.v : kw \in UNION {KwargsOf(loggers, k) : k \in {"csv", "tb", "wandb"}}}

CheckpointDirs == {kw.dirpath.v : kw \in KwargsOf(callbacks, "checkpoints")}

\* C3, as claimed: every directory handed to the checkpoint callback or to a
\* logger lies under the experiment directory exp_path.
C3_AllUnderExpPath ==
    \A d \in LoggerDirs \cup CheckpointDirs : IsPrefix(exp_path, d)

\* C3, amended: the loggers' save_dir is output_path/csv_logs,
\* output_path/tb_logs and output_path itself, under the output directory and
\* not under exp_path; the checkpoint dirpath is exp_path/ckpts, under the
\* experiment directory, unless exp.checkpoints.dirpath is configured, which
\* is then handed over unchanged.
C3_Directories ==
    /\ \A kw \in KwargsOf(loggers, "csv") :
            kw.save_dir = PathV(output_path \o <<"csv_logs">>)
    /\ \A kw \in KwargsOf(loggers, "tb") :
            kw.save_dir = PathV(output_path \o <<"tb_logs">>)
    /\ \A kw \in KwargsOf(loggers, "wandb") : kw.save_dir = PathV(output_path)
    /\ \A d \in LoggerDirs : IsPrefix(output_path, d) /\ ~IsPrefix(exp_path, d)
    /\ \A kw \in KwargsOf(callbacks, "checkpoints") :
            IF "dirpath" \in DOMAIN Section(cfg.exp, "checkpoints")
                THEN kw.dirpath = cfg.exp.checkpoints.dirpath
                ELSE /\ kw.dirpath = PathV(exp_path \o <<"ckpts">>)
                     /\ IsPrefix(exp_path, kw.dirpath.v)
                     /\ exp_path # <<>>

\* a logger and a checkpoint callback with the default dirpath were constructed
C3_Witness ==
    /\ KwargsOf(loggers, "csv") # {}
    /\ KwargsOf(callbacks, "checkpoints") # {}
    /\ "dirpath" \notin DOMAIN Section(cfg.exp, "checkpoints")

\* C4: a call that raises ends the run: main is left at once, the call that
\* raised is the last call made, no call is made twice, nothing more can
\* happen, and trainer.fit is not called after a failure.
C4_FailureEndsRun ==
    /\ error # "none" <=> pc = "failed"
    /\ pc = "failed" => ~ENABLED Next
    /\ error \notin {"none", "cfg"} =>
            /\ calls # <<>>
            /\ calls[Len(calls)] = error
    /\ \A i, j \in DOMAIN calls : calls[i] = calls[j] => i = j
    /\ "trainer.fit" \in Range(calls) => error \in {"none", "trainer.fit"}

\* the second logger's constructor raised after the first logger was built
C4_Witness ==
    /\ pc = "failed"
    /\ error = "TensorBoardLogger"
    /\ Len(loggers) = 1

\* exp.devices is present and lists more than one device
MultiDevice(e) == "devices" \in DOMAIN e /\ Len(e.devices.v) > 1

\* C5: with more than one device listed the trainer is given the number of
\* devices and the strategy exp.strategy, or 'ddp'; otherwise it is given no
\* strategy, amp_backend or sync_batchnorm at all.
C5_DevicesAndStrategy ==
    Past("trainer_kwargs") =>
        IF MultiDevice(cfg.exp)
            THEN /\ trainer_kwargs.devices = IntV(Len(cfg.exp.devices.v))
                 /\ trainer_kwargs.strategy
                        = (IF "strategy" \in DOMAIN cfg.exp
                              THEN cfg.exp.strategy ELSE StrV("ddp"))
                 /\ trainer.t = "obj" => trainer.kwargs = trainer_kwargs
            ELSE /\ {"strategy", "amp_backend", "sync_batchnorm"}
                        \cap DOMAIN trainer_kwargs = {}
                 /\ trainer.t = "obj" =>
                        {"strategy", "amp_backend", "sync_batchnorm"}
                            \cap DOMAIN trainer.kwargs = {}

\* a trainer built for one listed device although a strategy is configured
C5_Witness ==
    /\ trainer.t = "obj"
    /\ "devices" \in DOMAIN cfg.exp
    /\ Len(cfg.exp.devices.v) = 1
    /\ "strategy" \in DOMAIN cfg.exp

\* C6: a run that reaches module construction calls exactly one of LitModule
\* and LitModule.load_from_checkpoint, once: the latter iff exp.checkpoint_path
\* is present and truthy, with len_train_data_loader and checkpoint_path only;
\* the former with len_train_data_loader, optimizer, lr_scheduler and warmup.
C6_ModuleConstruction ==
    LET e == cfg.exp
        resume == /\ "checkpoint_path" \in DOMAIN e
                  /\ e.checkpoint_path \notin {NoneV, BoolV(FALSE), StrV("")}
    IN  /\ "module" \notin Range(steps) =>
                Count(calls, ModuleCalls) = 0 /\ module = NoModule
        /\ "module" \in Range(steps) =>
            /\ Count(calls, ModuleCalls) = 1
            /\ "LitModule.load_from_checkpoint" \in Range(calls) <=> resume
        /\ Past("module") =>
            /\ module.fn = (IF resume THEN "LitModule.load_from_checkpoint"
                                      ELSE "LitModule")
            /\ module.kwargs.len_train_data_loader \in
                    {IntV(n) : n \in 0..MaxLoaderLen}
            /\ IF resume
                  THEN /\ DOMAIN module.kwargs
                            = {"len_train_data_loader", "checkpoint_path"}
                       /\ module.kwargs.checkpoint_path = e.checkpoint_path
                  ELSE /\ DOMAIN module.kwargs
                            = {"len_train_data_loader", "optimizer",
                               "lr_scheduler", "warmup"}
                       /\ Verbatim(module.kwargs, "optimizer", e.train,
                                   "optimizer", FreshKwargs(Empty, 0).optimizer)
                       /\ Verbatim(module.kwargs, "lr_scheduler", e.train,
                                   "lr_scheduler",
                                   FreshKwargs(Empty, 0).lr_scheduler)
                       /\ Verbatim(module.kwargs, "warmup", e.train, "warmup",
                                   BoolV(FALSE))

\* a module resumed from a checkpoint although an optimizer is configured
C6_Witness ==
    /\ module.fn = "LitModule.load_from_checkpoint"
    /\ "optimizer" \in DOMAIN cfg.exp.train
    /\ "optimizer" \notin DOMAIN module.kwargs

\* C7: a supplied exp.val.batch_size is the val_batch_size the dataset is
\* given; with none supplied the dataset is given its training batch_size
\* argument (exp.train.batch_size, or 2) as val_batch_size; resolving it never
\* fails.
C7_ValBatchSize ==
    LET e == cfg.exp
    IN  "dataset" \in Range(steps) /\ "train" \in DOMAIN e /\ "val" \in DOMAIN e =>
            /\ error # "cfg"
            /\ "val_batch_size" \in DOMAIN dataset_kwargs
            /\ dataset_kwargs.val_batch_size
                    = (IF "batch_size" \in DOMAIN e.val
                          THEN e.val.batch_size
                          ELSE Get(e.train, "batch_size", IntV(2)))
            /\ "batch_size" \notin DOMAIN e.val =>
                    dataset_kwargs.val_batch_size = dataset_kwargs.batch_size

\* the configuration e with an empty exp.checkpoints section, and with none
WithEmptyCheckpoints(e) == ("checkpoints" :> Empty) @@ e

WithoutCheckpoints(e) == [k \in DOMAIN e \ {"checkpoints"} |-> e[k]]

\* C8: with no monitor configured the checkpoint callback is given one and
\* the same default monitor whether exp.checkpoints is absent or present
\* without the key, and with no dirpath configured the dirpath exp_path/ckpts
\* in both cases.
C8_OneDefaultMonitor ==
    \A kw \in KwargsOf(callbacks, "checkpoints") :
        /\ "monitor" \notin DOMAIN Section(cfg.exp, "checkpoints") =>
            /\ kw.monitor
                = CheckpointsKwargs(WithEmptyCheckpoints(cfg.exp), exp_path).monitor
            /\ kw.monitor
                = CheckpointsKwargs(WithoutCheckpoints(cfg.exp), exp_path).monitor
        /\ "dirpath" \notin DOMAIN Section(cfg.exp, "checkpoints") =>
                kw.dirpath = PathV(exp_path \o <<"ckpts">>)

\* the resolved fast_dev_run is True or a non-zero integer
FastDevRunOn ==
    /\ "fast_dev_run" \in DOMAIN trainer_kwargs
    /\ \/ trainer_kwargs.fast_dev_run = BoolV(TRUE)
       \/ /\ trainer_kwargs.fast_dev_run.t = "int"
          /\ trainer_kwargs.fast_dev_run.v # 0

\* the classes of the objects in a list of objects
ClassesOf(list) == {list.v[i].cls : i \in {j \in DOMAIN list.v : list.v[j].t = "obj"}}

\* C9: with a truthy fast_dev_run no logger and no callback is constructed,
\* whatever the configuration says of them, and the trainer is given
\* callbacks = [] and logger = []; with a falsy or absent one the trainer is
\* given at least a progress bar and a checkpoint callback.
C9_FastDevRun ==
    Past("trainer_kwargs") =>
        IF FastDevRunOn
            THEN /\ loggers = <<>>
                 /\ callbacks = <<>>
                 /\ Count(calls, LoggerClasses \cup CallbackClasses) = 0
                 /\ "pl.Trainer" \in Range(calls) =>
                        /\ trainer_kwargs.callbacks = ListV(<<>>)
                        /\ trainer_kwargs.logger = ListV(<<>>)
                 /\ trainer.t = "obj" => trainer.kwargs = trainer_kwargs
            ELSE "pl.Trainer" \in Range(calls) =>
                    /\ {"TQDMProgressBar", "ModelCheckpoint"}
                            \subseteq ClassesOf(trainer_kwargs.callbacks)
                    /\ trainer.t = "obj" => trainer.kwargs = trainer_kwargs

\* a trainer built with fast_dev_run = 2 although a logger and callbacks are
\* configured
C9_Witness ==
    /\ trainer.t = "obj"
    /\ trainer.kwargs.fast_dev_run = IntV(2)
    /\ "csv" \in DOMAIN cfg.exp
    /\ "early_stopping" \in DOMAIN cfg.exp
    /\ trainer.kwargs.callbacks = ListV(<<>>)

\* C10: with a falsy fast_dev_run the trainer is given the constructed objects
\* themselves, each once, callbacks in the order progress bar, checkpoint,
\* device-stats monitor (iff configured truthy), early stopping (iff
\* configured), model summary (iff configured), loggers in the order csv, tb,
\* wandb (each iff configured truthy).
C10_CallbacksAndLoggers ==
    LET e == cfg.exp
        On(k) == k \in DOMAIN e /\ e[k] \notin {BoolV(FALSE), NoneV, IntV(0)}
        cbs == trainer_kwargs.callbacks.v
        lgs == trainer_kwargs.logger.v
    IN  "pl.Trainer" \in Range(calls) /\ ~FastDevRunOn =>
            /\ \A i \in DOMAIN cbs : cbs[i].t = "obj"
            /\ \A i \in DOMAIN lgs : lgs[i].t = "obj"
            /\ cbs = Values(callbacks)
            /\ lgs = Values(loggers)
            /\ [i \in DOMAIN cbs |-> cbs[i].cls]
                    = <<"TQDMProgressBar", "ModelCheckpoint">>
                        \o If(On("device_stats_monitor"), "DeviceStatsMonitor")
                        \o If("early_stopping" \in DOMAIN e, "EarlyStopping")
                        \o If("model_summary" \in DOMAIN e, "ModelSummary")
            /\ [i \in DOMAIN lgs |-> lgs[i].cls]
                    = If(On("csv"), "CSVLogger")
                        \o If(On("tb"), "TensorBoardLogger")
                        \o If(On("wandb"), "WandbLogger")
            /\ trainer.t = "obj" => trainer.kwargs = trainer_kwargs

\* a trainer built with all five callbacks and a logger
C10_Witness ==
    /\ trainer.t = "obj"
    /\ Len(trainer.kwargs.callbacks.v) = 5
    /\ Len(trainer.kwargs.logger.v) = 1
    /\ trainer.kwargs.callbacks.v[5].cls = "ModelSummary"

====
